---- MODULE Spec2Model ----
(***************************************************************************)
(* State machine of the Humanize AI front-end: the App controller          *)
(* (src/App.tsx), the CameraScanner adapter                                *)
(* (src/components/CameraScanner.tsx) and the three service operations of  *)
(* src/services/geminiService.ts.                                          *)
(*                                                                         *)
(* Texts are sequences of symbols; " " and "\n" are the whitespace         *)
(* symbols.  Every await of the source is a suspension point: the part of  *)
(* a handler before the await is one action, the continuation (resolve or  *)
(* reject) is another action, and the values a continuation reads from the *)
(* handler's closure are stored in the record of the pending call.         *)
(***************************************************************************)
EXTENDS Integers, Sequences, FiniteSets, TLC

VARIABLES
    inputText,          \* App.tsx:16
    outputText,         \* App.tsx:17
    selectedTone,       \* App.tsx:18
    selectedLang,       \* App.tsx:19
    isLoading,          \* App.tsx:20
    isSpellingLoading,  \* App.tsx:21
    isScanning,         \* App.tsx:22
    isListening,        \* App.tsx:23
    error,              \* App.tsx:25
    history,            \* App.tsx:26
    recognition,        \* App.tsx:28 recognitionRef and the host's session
    humanizeCalls,      \* pending humanizeText promises (App.tsx:67)
    fixCalls,           \* pending fixSpellingAndGrammar promises (App.tsx:87)
    extractCalls,       \* pending extractTextFromImage promises (App.tsx:121)
    cams,               \* the CameraScanner instances mounted so far
    nextId,             \* identity of the next promise
    transformsLeft,     \* transforms the environment may still start
    stepsLeft,          \* other operations the user may still start
    added,              \* history variable: entries prepended since the last clear
    last,               \* history variable: the step taken last
    overtaken           \* history variable: ids of the pending transform and
                        \* fix calls during which a clear was confirmed

vars == <<inputText, outputText, selectedTone, selectedLang, isLoading,
          isSpellingLoading, isScanning, isListening, error, history,
          recognition, humanizeCalls, fixCalls, extractCalls, cams,
          nextId, transformsLeft, stepsLeft, added, last, overtaken>>

----------------------------------------------------------------------------
(* Bounds of the environment *)

\* [entry, ...prev].slice(0, 5): the length history is cut to
HistoryCap == 5

\* the budgets of Spec: transforms, and other operations of the user
MaxTransforms == 2
MaxSteps == 2
\* the budgets of SpecDeep: enough transforms to overflow the history once
DeepTransforms == HistoryCap + 1
DeepSteps == 2

----------------------------------------------------------------------------
(* Catalog: src/types.ts *)

Tones == {"Conversational", "Professional", "Academic", "Creative", "Concise"}

SUPPORTED_LANGUAGES ==
    << [code |-> "en",    name |-> "English"],
       [code |-> "en-pk", name |-> "English (Pakistan)"],
       [code |-> "ur",    name |-> "Urdu"],
       [code |-> "sd",    name |-> "Sindhi"],
       [code |-> "pa",    name |-> "Punjabi"],
       [code |-> "ps",    name |-> "Pashto"],
       [code |-> "bal",   name |-> "Balochi"],
       [code |-> "es",    name |-> "Spanish"],
       [code |-> "fr",    name |-> "French"],
       [code |-> "de",    name |-> "German"],
       [code |-> "zh",    name |-> "Chinese"],
       [code |-> "ar",    name |-> "Arabic"] >>

Languages == {SUPPORTED_LANGUAGES[i] : i \in DOMAIN SUPPORTED_LANGUAGES}

----------------------------------------------------------------------------
(* Strings *)

Whitespace == {" ", "\n"}

RECURSIVE TrimStart(_)
TrimStart(s) ==
    IF s # <<>> /\ Head(s) \in Whitespace THEN TrimStart(Tail(s)) ELSE s

RECURSIVE TrimEnd(_)
TrimEnd(s) ==
    IF s # <<>> /\ s[Len(s)] \in Whitespace
    THEN TrimEnd(SubSeq(s, 1, Len(s) - 1))
    ELSE s

\* String.prototype.trim
Trim(s) == TrimEnd(TrimStart(s))

\* !inputText.trim()
IsBlank(s) == Trim(s) = <<>>

\* Array.prototype.slice(0, n)
Slice0(s, n) == SubSeq(s, 1, IF Len(s) < n THEN Len(s) ELSE n)

----------------------------------------------------------------------------
(* Messages and inputs of the environment *)

NoError == "null"
EnterTextMessage == "Please enter some text first."
VoiceUnsupportedMessage == "Voice input not supported on this device."
GrammarFailedMessage == "Grammar fix failed."
ApiFailedMessage ==
    "API call failed. Please check your connection or try a shorter text."
ScanFailedMessage == "Could not scan text from camera."
FallbackText == <<"I couldn't process that text. Please try again.">>

\* the tones and languages the user picks among
ToneChoices == {"Conversational", "Professional"}
LanguageChoices == {SUPPORTED_LANGUAGES[1], SUPPORTED_LANGUAGES[3]}

\* what the user may type into the textarea
TypedTexts == {<<>>, <<" ">>, <<"a">>}
\* transcripts the host's speech recognition may deliver
Transcripts == {<<"t">>}
\* response.text of the generative service, <<>> standing for no text
HumanizeResponses == {<<>>, <<"h">>}
FixResponses == {<<>>, <<"f", " ">>}
ExtractResponses == {<<>>, <<"x", " ">>}

\* canvas.toDataURL('image/jpeg'): a frame of the live video, or the empty
\* canvas when the video has no frame yet
FrameDataUrl == <<"data:image/jpeg;base64", ",", "/9j/">>
EmptyDataUrl == <<"data:", ",">>

\* an image handed over as bare base64, without the data-URL header
BareBase64 == <<"AAAA">>

\* the strings onCapture may be called with
ImageInputs == {FrameDataUrl, EmptyDataUrl, BareBase64}

----------------------------------------------------------------------------
(* Transformation client: src/services/geminiService.ts *)

\* return response.text || "I couldn't process that text. Please try again."
HumanizeResult(response) ==
    IF response # <<>> THEN response ELSE FallbackText

\* return response.text?.trim() || text
FixResult(response, text) ==
    IF Trim(response) # <<>> THEN Trim(response) ELSE text

\* return response.text?.trim() || ""
ExtractResult(response) == Trim(response)

\* base64Data.split(',')[1]: the part between the first and the second comma
RECURSIVE UpToComma(_)
UpToComma(s) ==
    IF s = <<>> \/ Head(s) = "," THEN <<>> ELSE <<Head(s)>> \o UpToComma(Tail(s))

RECURSIVE AfterComma(_)
AfterComma(s) ==
    IF s = <<>> THEN <<>>
    ELSE IF Head(s) = "," THEN Tail(s) ELSE AfterComma(Tail(s))

\* variant: the string is forwarded whole
ImagePayloadWhole(base64Data) == base64Data

\* base64Data.includes(',') ? base64Data.split(',')[1] : base64Data
ImagePayload(base64Data) ==
    IF \E i \in DOMAIN base64Data : base64Data[i] = ","
    THEN UpToComma(AfterComma(base64Data))
    ELSE base64Data

----------------------------------------------------------------------------
(* Budgets of the environment *)

Gesture ==
    /\ stepsLeft > 0
    /\ stepsLeft' = stepsLeft - 1

StartTransform ==
    /\ transformsLeft > 0
    /\ transformsLeft' = transformsLeft - 1
    /\ nextId' = nextId + 1
    /\ UNCHANGED stepsLeft

StartCall ==
    /\ stepsLeft > 0
    /\ stepsLeft' = stepsLeft - 1
    /\ nextId' = nextId + 1
    /\ UNCHANGED transformsLeft

\* the steps that settle a transform or a grammar-fix call
SettleOps == {"HumanizeResolve", "HumanizeReject",
              "FixResolve", "FixResolveOverEdit", "FixReject"}

\* the steps that clear session content
ClearOps == {"clearAll", "ClearHistory"}

Did(op, id) ==
    /\ last' = [op |-> op, id |-> id,
                afterClear |-> op \in SettleOps /\ id \in overtaken]
    /\ overtaken' =
          IF op \in ClearOps
          THEN overtaken \cup {c.id : c \in humanizeCalls}
                         \cup {c.id : c \in fixCalls}
          ELSE IF op \in SettleOps THEN overtaken \ {id}
          ELSE overtaken

----------------------------------------------------------------------------
(* Application controller: src/App.tsx *)

\* textarea onChange
SetInputText(t) ==
    /\ Gesture
    /\ inputText' = t
    /\ Did("SetInputText", 0)
    /\ UNCHANGED <<outputText, selectedTone, selectedLang,
                   isLoading, isSpellingLoading, isScanning,
                   isListening, error, history, recognition,
                   humanizeCalls, fixCalls, extractCalls, cams,
                   nextId, transformsLeft, added>>

\* variant: choosing a language also discards the displayed output
SelectLanguageClearsOutput(lang) ==
    /\ Gesture
    /\ selectedLang' = lang
    /\ outputText' = <<>>
    /\ Did("SelectLanguage", 0)
    /\ UNCHANGED <<inputText, selectedTone, isLoading,
                   isSpellingLoading, isScanning, isListening,
                   error, history, recognition, humanizeCalls,
                   fixCalls, extractCalls, cams, nextId,
                   transformsLeft, added>>

\* language grid onClick
SelectLanguage(lang) ==
    /\ Gesture
    /\ selectedLang' = lang
    /\ Did("SelectLanguage", 0)
    /\ UNCHANGED <<inputText, outputText, selectedTone, isLoading,
                   isSpellingLoading, isScanning, isListening,
                   error, history, recognition, humanizeCalls,
                   fixCalls, extractCalls, cams, nextId,
                   transformsLeft, added>>

\* ToneSelector onSelect
SelectTone(tone) ==
    /\ Gesture
    /\ selectedTone' = tone
    /\ Did("SelectTone", 0)
    /\ UNCHANGED <<inputText, outputText, selectedLang, isLoading,
                   isSpellingLoading, isScanning, isListening,
                   error, history, recognition, humanizeCalls,
                   fixCalls, extractCalls, cams, nextId,
                   transformsLeft, added>>

\* variant: Balochi is laid out left to right
isRTLWithoutBalochi == selectedLang.code \in {"ur", "sd", "ar", "ps"}

\* const isRTL, computed at every render from the selected language
isRTL == selectedLang.code \in {"ur", "sd", "ar", "ps", "bal"}

\* the dir attribute of the output card
OutputDir == IF isRTL THEN "rtl" ELSE "ltr"

\* the values handleTransform's continuation reads from its closure
HumanizeCall(id) ==
    [id |-> id, text |-> inputText, tone |-> selectedTone,
     language |-> selectedLang.name]

\* if (!inputText.trim()) return setError('Please enter some text first.')
TransformBlank ==
    /\ Gesture
    /\ error' = EnterTextMessage
    /\ Did("TransformBlank", 0)
    /\ UNCHANGED <<inputText, outputText, selectedTone,
                   selectedLang, isLoading, isSpellingLoading,
                   isScanning, isListening, history, recognition,
                   humanizeCalls, fixCalls, extractCalls, cams,
                   nextId, transformsLeft, added>>

\* setIsLoading(true); setError(null); await humanizeText(...)
TransformStart ==
    /\ StartTransform
    /\ isLoading' = TRUE
    /\ error' = NoError
    /\ humanizeCalls' = humanizeCalls \cup {HumanizeCall(nextId)}
    /\ Did("TransformStart", nextId)
    /\ UNCHANGED <<inputText, outputText, selectedTone,
                   selectedLang, isSpellingLoading, isScanning,
                   isListening, history, recognition, fixCalls,
                   extractCalls, cams, stepsLeft, added>>

\* variant: the blank test without trim()
handleTransformUntrimmed ==
    IF inputText = <<>> THEN TransformBlank ELSE TransformStart

handleTransform ==
    IF IsBlank(inputText) THEN TransformBlank ELSE TransformStart

\* disabled={isLoading || !inputText.trim()}
HumanizeDisabled == isLoading \/ IsBlank(inputText)

\* the Humanize button's onClick
ClickHumanize == ~HumanizeDisabled /\ handleTransform

\* variant: the entry made from the state at settlement, not from the closure
HistoryEntryCurrentInput(c, result) ==
    [originalText |-> inputText, humanizedText |-> result,
     language |-> c.language, ord |-> added + 1]

\* variant: the entry's language read at settlement
HistoryEntryCurrentLanguage(c, result) ==
    [originalText |-> c.text, humanizedText |-> result,
     language |-> selectedLang.name, ord |-> added + 1]

\* { originalText, humanizedText, timestamp, language }.  The timestamp
\* (Date.now(), only rendered as a time of day) is not represented; ord is a
\* history field that numbers the entries made since the last clear
HistoryEntry(c, result) ==
    [originalText |-> c.text, humanizedText |-> result,
     language |-> c.language, ord |-> added + 1]

\* variant: no slice
PrependUncapped(prev, entry) == <<entry>> \o prev

\* variant: the entry added at the back
AppendCapped(prev, entry) == Slice0(prev \o <<entry>>, HistoryCap)

\* [entry, ...prev].slice(0, 5)
PrependCapped(prev, entry) == Slice0(<<entry>> \o prev, HistoryCap)

\* humanizeText resolved: the rest of the try block, then finally
HumanizeResolve(c, response) ==
    /\ c \in humanizeCalls
    /\ humanizeCalls' = humanizeCalls \ {c}
    /\ outputText' = HumanizeResult(response)
    /\ history' = PrependCapped(history, HistoryEntry(c, HumanizeResult(response)))
    /\ added' = added + 1
    /\ isLoading' = FALSE
    /\ Did("HumanizeResolve", c.id)
    /\ UNCHANGED <<inputText, selectedTone, selectedLang,
                   isSpellingLoading, isScanning, isListening,
                   error, recognition, fixCalls, extractCalls,
                   cams, nextId, transformsLeft, stepsLeft>>

\* variant: setIsLoading(false) at the end of the try block, no finally
HumanizeRejectNoFinally(c) ==
    /\ c \in humanizeCalls
    /\ humanizeCalls' = humanizeCalls \ {c}
    /\ error' = ApiFailedMessage
    /\ Did("HumanizeReject", c.id)
    /\ UNCHANGED <<inputText, outputText, selectedTone, selectedLang,
                   isLoading, isSpellingLoading, isScanning, isListening,
                   history, recognition, fixCalls, extractCalls, cams,
                   nextId, transformsLeft, stepsLeft, added>>

\* variant: the catch block also resets the output
HumanizeRejectClearsOutput(c) ==
    /\ c \in humanizeCalls
    /\ humanizeCalls' = humanizeCalls \ {c}
    /\ error' = ApiFailedMessage
    /\ outputText' = <<>>
    /\ isLoading' = FALSE
    /\ Did("HumanizeReject", c.id)
    /\ UNCHANGED <<inputText, selectedTone, selectedLang,
                   isSpellingLoading, isScanning, isListening, history,
                   recognition, fixCalls, extractCalls, cams, nextId,
                   transformsLeft, stepsLeft, added>>

\* humanizeText rejected: catch (err) { setError(err.message) }, then finally
HumanizeReject(c) ==
    /\ c \in humanizeCalls
    /\ humanizeCalls' = humanizeCalls \ {c}
    /\ error' = ApiFailedMessage
    /\ isLoading' = FALSE
    /\ Did("HumanizeReject", c.id)
    /\ UNCHANGED <<inputText, outputText, selectedTone,
                   selectedLang, isSpellingLoading, isScanning,
                   isListening, history, recognition, fixCalls,
                   extractCalls, cams, nextId, transformsLeft,
                   stepsLeft, added>>

\* disabled={isSpellingLoading || !inputText.trim()}
FixDisabled == isSpellingLoading \/ IsBlank(inputText)

\* variant: the fix raises the flag of the transform
ClickFixSharedFlag ==
    /\ ~FixDisabled
    /\ ~IsBlank(inputText)
    /\ StartCall
    /\ isSpellingLoading' = TRUE
    /\ isLoading' = TRUE
    /\ fixCalls' = fixCalls \cup {[id |-> nextId, text |-> inputText]}
    /\ Did("ClickFix", nextId)
    /\ UNCHANGED <<inputText, outputText, selectedTone,
                   selectedLang, isScanning,
                   isListening, error, history, recognition,
                   humanizeCalls, extractCalls, cams, added>>

\* the Fix button's onClick: handleFixSpelling up to its await
ClickFix ==
    /\ ~FixDisabled
    /\ ~IsBlank(inputText)
    /\ StartCall
    /\ isSpellingLoading' = TRUE
    /\ fixCalls' = fixCalls \cup {[id |-> nextId, text |-> inputText]}
    /\ Did("ClickFix", nextId)
    /\ UNCHANGED <<inputText, outputText, selectedTone,
                   selectedLang, isLoading, isScanning,
                   isListening, error, history, recognition,
                   humanizeCalls, extractCalls, cams, added>>

\* variant: a result that arrives after the input was edited is dropped
FixResolveKeepsEdits(c, response) ==
    /\ c \in fixCalls
    /\ fixCalls' = fixCalls \ {c}
    /\ inputText' = IF inputText = c.text
                    THEN FixResult(response, c.text)
                    ELSE inputText
    /\ isSpellingLoading' = FALSE
    /\ Did(IF inputText = c.text THEN "FixResolve" ELSE "FixResolveOverEdit",
           c.id)
    /\ UNCHANGED <<outputText, selectedTone, selectedLang,
                   isLoading, isScanning, isListening, error,
                   history, recognition, humanizeCalls,
                   extractCalls, cams, nextId, transformsLeft,
                   stepsLeft, added>>

\* fixSpellingAndGrammar resolved: setInputText(fixed), then finally
FixResolve(c, response) ==
    /\ c \in fixCalls
    /\ fixCalls' = fixCalls \ {c}
    /\ inputText' = FixResult(response, c.text)
    /\ isSpellingLoading' = FALSE
    /\ Did(IF inputText = c.text THEN "FixResolve" ELSE "FixResolveOverEdit",
           c.id)
    /\ UNCHANGED <<outputText, selectedTone, selectedLang,
                   isLoading, isScanning, isListening, error,
                   history, recognition, humanizeCalls,
                   extractCalls, cams, nextId, transformsLeft,
                   stepsLeft, added>>

\* variant: a failure is reported only when no error is showing
FixRejectKeepsFirstError(c) ==
    /\ c \in fixCalls
    /\ fixCalls' = fixCalls \ {c}
    /\ error' = IF error = NoError THEN GrammarFailedMessage ELSE error
    /\ isSpellingLoading' = FALSE
    /\ Did("FixReject", c.id)
    /\ UNCHANGED <<inputText, outputText, selectedTone,
                   selectedLang, isLoading, isScanning,
                   isListening, history, recognition,
                   humanizeCalls, extractCalls, cams, nextId,
                   transformsLeft, stepsLeft, added>>

\* fixSpellingAndGrammar rejected: setError("Grammar fix failed."), then finally
FixReject(c) ==
    /\ c \in fixCalls
    /\ fixCalls' = fixCalls \ {c}
    /\ error' = GrammarFailedMessage
    /\ isSpellingLoading' = FALSE
    /\ Did("FixReject", c.id)
    /\ UNCHANGED <<inputText, outputText, selectedTone,
                   selectedLang, isLoading, isScanning,
                   isListening, history, recognition,
                   humanizeCalls, extractCalls, cams, nextId,
                   transformsLeft, stepsLeft, added>>

\* variant: no confirm()
clearAllUnconfirmed(confirmed) ==
    /\ Gesture
    /\ inputText' = <<>>
    /\ outputText' = <<>>
    /\ history' = <<>>
    /\ error' = NoError
    /\ added' = 0
    /\ Did(IF confirmed THEN "clearAll" ELSE "clearAllDeclined", 0)
    /\ UNCHANGED <<selectedTone, selectedLang, isLoading,
                   isSpellingLoading, isScanning, isListening,
                   recognition, humanizeCalls, fixCalls, extractCalls,
                   cams, nextId, transformsLeft>>

\* variant: a confirmed clearAll also abandons the calls in flight
clearAllCancels(confirmed) ==
    /\ Gesture
    /\ IF confirmed
       THEN /\ inputText' = <<>>
            /\ outputText' = <<>>
            /\ history' = <<>>
            /\ error' = NoError
            /\ added' = 0
            /\ humanizeCalls' = {}
            /\ fixCalls' = {}
            /\ isLoading' = FALSE
            /\ isSpellingLoading' = FALSE
       ELSE UNCHANGED <<inputText, outputText, history, error, added,
                        humanizeCalls, fixCalls, isLoading,
                        isSpellingLoading>>
    /\ Did(IF confirmed THEN "clearAll" ELSE "clearAllDeclined", 0)
    /\ UNCHANGED <<selectedTone, selectedLang, isScanning, isListening,
                   recognition, extractCalls, cams, nextId,
                   transformsLeft>>

\* clearAll; confirmed is the answer to confirm("Clear all text and history?")
clearAll(confirmed) ==
    /\ Gesture
    /\ IF confirmed
       THEN /\ inputText' = <<>>
            /\ outputText' = <<>>
            /\ history' = <<>>
            /\ error' = NoError
            /\ added' = 0
       ELSE UNCHANGED <<inputText, outputText, history, error, added>>
    /\ Did(IF confirmed THEN "clearAll" ELSE "clearAllDeclined", 0)
    /\ UNCHANGED <<selectedTone, selectedLang, isLoading,
                   isSpellingLoading, isScanning, isListening,
                   recognition, humanizeCalls, fixCalls,
                   extractCalls, cams, nextId, transformsLeft>>

\* variant: Clear History also resets the output
ClearHistoryAndOutput ==
    /\ Len(history) > 0
    /\ Gesture
    /\ history' = <<>>
    /\ outputText' = <<>>
    /\ added' = 0
    /\ Did("ClearHistory", 0)
    /\ UNCHANGED <<inputText, selectedTone, selectedLang, isLoading,
                   isSpellingLoading, isScanning, isListening, error,
                   recognition, humanizeCalls, fixCalls, extractCalls,
                   cams, nextId, transformsLeft>>

\* the Clear History button, rendered when history.length > 0
ClearHistory ==
    /\ Len(history) > 0
    /\ Gesture
    /\ history' = <<>>
    /\ added' = 0
    /\ Did("ClearHistory", 0)
    /\ UNCHANGED <<inputText, outputText, selectedTone,
                   selectedLang, isLoading, isSpellingLoading,
                   isScanning, isListening, error, recognition,
                   humanizeCalls, fixCalls, extractCalls, cams,
                   nextId, transformsLeft>>

\* a history card's onClick
RestoreHistory(i) ==
    /\ i \in DOMAIN history
    /\ Gesture
    /\ inputText' = history[i].originalText
    /\ outputText' = history[i].humanizedText
    /\ Did("RestoreHistory", 0)
    /\ UNCHANGED <<selectedTone, selectedLang, isLoading,
                   isSpellingLoading, isScanning, isListening,
                   error, history, recognition, humanizeCalls,
                   fixCalls, extractCalls, cams, nextId,
                   transformsLeft, added>>

----------------------------------------------------------------------------
(* Speech adapter: src/App.tsx.  recognition is "unsupported" when the     *)
(* host has no SpeechRecognition (recognitionRef.current stays null), and  *)
(* otherwise the state of the host's session: "inactive", "started",       *)
(* "stopping" (stop() was called) or "closing" (a result or an error was   *)
(* delivered and only the end event is still to come).                     *)

\* variant: the handler without its recognitionRef check
toggleVoiceInputUnchecked ==
    /\ Gesture
    /\ IF isListening
       THEN /\ recognition' =
                  IF recognition = "started" THEN "stopping" ELSE recognition
            /\ UNCHANGED <<isListening, error>>
       ELSE /\ error' = NoError
            /\ isListening' = TRUE
            /\ recognition' =
                  IF recognition = "inactive" THEN "started" ELSE recognition
    /\ Did("toggleVoiceInput", 0)
    /\ UNCHANGED <<inputText, outputText, selectedTone,
                   selectedLang, isLoading, isSpellingLoading,
                   isScanning, history, humanizeCalls, fixCalls,
                   extractCalls, cams, nextId, transformsLeft,
                   added>>

toggleVoiceInput ==
    /\ Gesture
    /\ IF recognition = "unsupported"
       THEN /\ error' = VoiceUnsupportedMessage
            /\ UNCHANGED <<isListening, recognition>>
       ELSE IF isListening
       THEN \* recognitionRef.current.stop()
            /\ recognition' =
                  IF recognition = "started" THEN "stopping" ELSE recognition
            /\ UNCHANGED <<isListening, error>>
       ELSE \* start() throws InvalidStateError when the session is not over
            /\ error' = NoError
            /\ isListening' = TRUE
            /\ recognition' =
                  IF recognition = "inactive" THEN "started" ELSE recognition
    /\ Did("toggleVoiceInput", 0)
    /\ UNCHANGED <<inputText, outputText, selectedTone,
                   selectedLang, isLoading, isSpellingLoading,
                   isScanning, history, humanizeCalls, fixCalls,
                   extractCalls, cams, nextId, transformsLeft,
                   added>>

\* variant: the transcript replaces the input instead of extending it
RecognitionResultReplaces(transcript) ==
    /\ recognition \in {"started", "stopping"}
    /\ recognition' = "closing"
    /\ inputText' = transcript
    /\ isListening' = FALSE
    /\ Did("RecognitionResult", 0)
    /\ UNCHANGED <<outputText, selectedTone, selectedLang,
                   isLoading, isSpellingLoading, isScanning,
                   error, history, humanizeCalls, fixCalls,
                   extractCalls, cams, nextId, transformsLeft,
                   stepsLeft, added>>

\* recognition.onresult
RecognitionResult(transcript) ==
    /\ recognition \in {"started", "stopping"}
    /\ recognition' = "closing"
    /\ inputText' = IF inputText # <<>>
                    THEN inputText \o <<" ">> \o transcript
                    ELSE transcript
    /\ isListening' = FALSE
    /\ Did("RecognitionResult", 0)
    /\ UNCHANGED <<outputText, selectedTone, selectedLang,
                   isLoading, isSpellingLoading, isScanning,
                   error, history, humanizeCalls, fixCalls,
                   extractCalls, cams, nextId, transformsLeft,
                   stepsLeft, added>>

\* recognition.onerror
RecognitionError ==
    /\ recognition \in {"started", "stopping"}
    /\ recognition' = "closing"
    /\ isListening' = FALSE
    /\ Did("RecognitionError", 0)
    /\ UNCHANGED <<inputText, outputText, selectedTone,
                   selectedLang, isLoading, isSpellingLoading,
                   isScanning, error, history, humanizeCalls,
                   fixCalls, extractCalls, cams, nextId,
                   transformsLeft, stepsLeft, added>>

\* variant: the end of the session leaves the listening flag alone
RecognitionEndKeepsListening ==
    /\ recognition \in {"started", "stopping", "closing"}
    /\ recognition' = "inactive"
    /\ Did("RecognitionEnd", 0)
    /\ UNCHANGED <<inputText, outputText, selectedTone,
                   selectedLang, isLoading, isSpellingLoading,
                   isScanning, isListening, error, history, humanizeCalls,
                   fixCalls, extractCalls, cams, nextId,
                   transformsLeft, stepsLeft, added>>

\* recognition.onend
RecognitionEnd ==
    /\ recognition \in {"started", "stopping", "closing"}
    /\ recognition' = "inactive"
    /\ isListening' = FALSE
    /\ Did("RecognitionEnd", 0)
    /\ UNCHANGED <<inputText, outputText, selectedTone,
                   selectedLang, isLoading, isSpellingLoading,
                   isScanning, error, history, humanizeCalls,
                   fixCalls, extractCalls, cams, nextId,
                   transformsLeft, stepsLeft, added>>

----------------------------------------------------------------------------
(* Camera adapter: src/components/CameraScanner.tsx.  cams[k] is the k-th  *)
(* CameraScanner instance: mounted, hasPermission ("null", "true",         *)
(* "false"), gum (the getUserMedia promise: "pending", "resolved",         *)
(* "rejected"), srcObject (the video element holds the stream) and tracks  *)
(* of the acquired stream ("none", "live", "stopped").                     *)

NewCamera ==
    [mounted |-> TRUE, hasPermission |-> "null", gum |-> "pending",
     srcObject |-> FALSE, tracks |-> "none"]

\* videoRef.current: the video element exists while the instance is mounted
\* and renders the viewfinder (the denied view has no video element)
VideoRef(cam) == cam.mounted /\ cam.hasPermission # "false"

\* the cleanup returned by useEffect, then the instance is gone:
\* if (videoRef.current && videoRef.current.srcObject) the tracks are stopped
Unmounted(cam) ==
    [cam EXCEPT !.mounted = FALSE,
                !.tracks = IF VideoRef(cam) /\ cam.srcObject
                           THEN "stopped" ELSE @]

\* the camera button: setIsScanning(true) mounts a CameraScanner, whose
\* effect calls getUserMedia
OpenScanner ==
    /\ ~isScanning
    /\ Gesture
    /\ isScanning' = TRUE
    /\ cams' = Append(cams, NewCamera)
    /\ Did("OpenScanner", 0)
    /\ UNCHANGED <<inputText, outputText, selectedTone,
                   selectedLang, isLoading, isSpellingLoading,
                   isListening, error, history, recognition,
                   humanizeCalls, fixCalls, extractCalls, nextId,
                   transformsLeft, added>>

\* getUserMedia resolved with a stream
GetUserMediaResolve(k) ==
    /\ k \in DOMAIN cams
    /\ cams[k].gum = "pending"
    /\ cams' = [cams EXCEPT ![k] =
                  IF VideoRef(cams[k])
                  THEN [@ EXCEPT !.gum = "resolved", !.tracks = "live",
                                 !.srcObject = TRUE, !.hasPermission = "true"]
                  ELSE [@ EXCEPT !.gum = "resolved", !.tracks = "live"]]
    /\ Did("GetUserMediaResolve", k)
    /\ UNCHANGED <<inputText, outputText, selectedTone,
                   selectedLang, isLoading, isSpellingLoading,
                   isScanning, isListening, error, history,
                   recognition, humanizeCalls, fixCalls,
                   extractCalls, nextId, transformsLeft,
                   stepsLeft, added>>

\* getUserMedia rejected; setHasPermission has no effect once unmounted
GetUserMediaReject(k) ==
    /\ k \in DOMAIN cams
    /\ cams[k].gum = "pending"
    /\ cams' = [cams EXCEPT ![k] =
                  IF cams[k].mounted
                  THEN [@ EXCEPT !.gum = "rejected", !.hasPermission = "false"]
                  ELSE [@ EXCEPT !.gum = "rejected"]]
    /\ Did("GetUserMediaReject", k)
    /\ UNCHANGED <<inputText, outputText, selectedTone,
                   selectedLang, isLoading, isSpellingLoading,
                   isScanning, isListening, error, history,
                   recognition, humanizeCalls, fixCalls,
                   extractCalls, nextId, transformsLeft,
                   stepsLeft, added>>

\* onClose={() => setIsScanning(false)} of either view
CloseScanner ==
    /\ isScanning
    /\ Gesture
    /\ isScanning' = FALSE
    /\ cams' = [cams EXCEPT ![Len(cams)] = Unmounted(@)]
    /\ Did("CloseScanner", Len(cams))
    /\ UNCHANGED <<inputText, outputText, selectedTone,
                   selectedLang, isLoading, isSpellingLoading,
                   isListening, error, history, recognition,
                   humanizeCalls, fixCalls, extractCalls, nextId,
                   transformsLeft, added>>

\* canvas.toDataURL('image/jpeg') of the frame drawn from the video
DataUrl(cam) == IF cam.srcObject THEN FrameDataUrl ELSE EmptyDataUrl

\* App's onCapture up to its await, the scanner being mounted
onCapture(img) ==
    /\ isScanning
    /\ StartCall
    /\ isScanning' = FALSE
    /\ cams' = [cams EXCEPT ![Len(cams)] = Unmounted(@)]
    /\ isLoading' = TRUE
    /\ extractCalls' = extractCalls \cup
          {[id |-> nextId, data |-> ImagePayload(img)]}
    /\ Did("onCapture", nextId)
    /\ UNCHANGED <<inputText, outputText, selectedTone,
                   selectedLang, isSpellingLoading, isListening,
                   error, history, recognition, humanizeCalls,
                   fixCalls, added>>

\* the capture button: takePhoto passes the frame to onCapture
takePhoto ==
    /\ isScanning
    /\ VideoRef(cams[Len(cams)])
    /\ onCapture(DataUrl(cams[Len(cams)]))

\* variant: the extracted text replaces the input
ExtractResolveOverwrites(c, response) ==
    /\ c \in extractCalls
    /\ extractCalls' = extractCalls \ {c}
    /\ inputText' = ExtractResult(response)
    /\ isLoading' = FALSE
    /\ Did("ExtractResolve", c.id)
    /\ UNCHANGED <<outputText, selectedTone, selectedLang,
                   isSpellingLoading, isScanning, isListening,
                   error, history, recognition, humanizeCalls,
                   fixCalls, cams, nextId, transformsLeft,
                   stepsLeft, added>>

\* extractTextFromImage resolved: if (text) setInputText(...), then finally
ExtractResolve(c, response) ==
    /\ c \in extractCalls
    /\ extractCalls' = extractCalls \ {c}
    /\ inputText' =
          IF ExtractResult(response) # <<>>
          THEN IF inputText # <<>>
               THEN inputText \o <<"\n", "\n">> \o ExtractResult(response)
               ELSE ExtractResult(response)
          ELSE inputText
    /\ isLoading' = FALSE
    /\ Did("ExtractResolve", c.id)
    /\ UNCHANGED <<outputText, selectedTone, selectedLang,
                   isSpellingLoading, isScanning, isListening,
                   error, history, recognition, humanizeCalls,
                   fixCalls, cams, nextId, transformsLeft,
                   stepsLeft, added>>

\* extractTextFromImage rejected: setError(e.message), then finally
ExtractReject(c) ==
    /\ c \in extractCalls
    /\ extractCalls' = extractCalls \ {c}
    /\ error' = ScanFailedMessage
    /\ isLoading' = FALSE
    /\ Did("ExtractReject", c.id)
    /\ UNCHANGED <<inputText, outputText, selectedTone,
                   selectedLang, isSpellingLoading, isScanning,
                   isListening, history, recognition,
                   humanizeCalls, fixCalls, cams, nextId,
                   transformsLeft, stepsLeft, added>>

----------------------------------------------------------------------------
(* Specifications *)

\* the useState initial values of App, before any event
Mounted(transforms, steps) ==
    /\ inputText = <<>>
    /\ outputText = <<>>
    /\ selectedTone = "Conversational"
    /\ selectedLang = SUPPORTED_LANGUAGES[1]
    /\ isLoading = FALSE
    /\ isSpellingLoading = FALSE
    /\ isScanning = FALSE
    /\ isListening = FALSE
    /\ error = NoError
    /\ history = <<>>
    /\ recognition \in {"unsupported", "inactive"}
    /\ humanizeCalls = {}
    /\ fixCalls = {}
    /\ extractCalls = {}
    /\ cams = <<>>
    /\ nextId = 1
    /\ transformsLeft = transforms
    /\ stepsLeft = steps
    /\ added = 0
    /\ last = [op |-> "mount", id |-> 0, afterClear |-> FALSE]
    /\ overtaken = {}

Init == Mounted(MaxTransforms, MaxSteps)

InitDeep == Mounted(DeepTransforms, DeepSteps)

Next ==
    \/ \E t \in TypedTexts : SetInputText(t)
    \/ \E lang \in LanguageChoices : SelectLanguage(lang)
    \/ \E tone \in ToneChoices : SelectTone(tone)
    \/ ClickHumanize
    \/ \E c \in humanizeCalls, r \in HumanizeResponses : HumanizeResolve(c, r)
    \/ \E c \in humanizeCalls : HumanizeReject(c)
    \/ ClickFix
    \/ \E c \in fixCalls, r \in FixResponses : FixResolve(c, r)
    \/ \E c \in fixCalls : FixReject(c)
    \/ \E confirmed \in BOOLEAN : clearAll(confirmed)
    \/ ClearHistory
    \/ \E i \in DOMAIN history : RestoreHistory(i)
    \/ toggleVoiceInput
    \/ \E t \in Transcripts : RecognitionResult(t)
    \/ RecognitionError
    \/ RecognitionEnd
    \/ OpenScanner
    \/ \E k \in DOMAIN cams : GetUserMediaResolve(k)
    \/ \E k \in DOMAIN cams : GetUserMediaReject(k)
    \/ CloseScanner
    \/ takePhoto
    \/ \E c \in extractCalls, r \in ExtractResponses : ExtractResolve(c, r)
    \/ \E c \in extractCalls : ExtractReject(c)

\* the program driven through its controls
Spec == Init /\ [][Next]_vars

\* handleTransform called as an operation of the controller, whatever the
\* state of the Humanize button
SubmitTransform == handleTransform

\* onCapture called with an image, whatever the viewfinder shows
SubmitCapture(img) == onCapture(img)

NextOps ==
    \/ Next
    \/ SubmitTransform
    \/ \E img \in ImageInputs : SubmitCapture(img)

\* the program with its transform and capture operations also called directly
SpecOps == Init /\ [][NextOps]_vars

\* the same program with fewer gestures and more service calls
SpecDeep == InitDeep /\ [][Next]_vars

\* one gesture more than Spec: a text, the camera and a capture fit in a run
InitWide == Mounted(MaxTransforms, MaxSteps + 1)

\* the program driven through its controls, over longer sessions
SpecWide == InitWide /\ [][Next]_vars

\* the language grid offers every language of the catalog
NextCatalog == Next \/ \E lang \in Languages : SelectLanguage(lang)

\* the program with the whole catalog to choose from
SpecCatalog == Init /\ [][NextCatalog]_vars

\* the host's speech service delivers one of its callbacks
HostDelivers ==
    \/ \E t \in Transcripts : RecognitionResult(t)
    \/ RecognitionError
    \/ RecognitionEnd

\* the program on a host that does not withhold the callbacks of a session
\* it has started for ever
SpecLive == Init /\ [][Next]_vars /\ WF_vars(HostDelivers)

----------------------------------------------------------------------------
(* Properties *)

\* the fields of the session state other than the four clearAll resets
Selections == <<selectedTone, selectedLang>>
Flags == <<isLoading, isSpellingLoading, isScanning, isListening>>
Pending == <<humanizeCalls, fixCalls, extractCalls>>

Min(a, b) == IF a < b THEN a ELSE b

\* C1: in the state a settlement of a humanize call started by
\* handleTransform leaves behind, resolved or rejected, isLoading is false.
C1_LoadingClearedOnSettle ==
    last.op \in {"HumanizeResolve", "HumanizeReject"} => isLoading = FALSE

\* a transform has rejected, after an earlier one resolved
C1_Witness ==
    /\ last.op = "HumanizeReject"
    /\ history # <<>>
    /\ isLoading = FALSE

\* C2: in every reachable state the history has at most 5 entries.
C2_HistoryAtMostFive == Len(history) <= 5

\* six transforms have succeeded in a row and the history is full
C2_Witness == added = 6 /\ Len(history) = 5

\* C3: a successful transform puts its entry at index 1 (index 0 of the
\* source) and keeps the previous entries behind it in their order, dropping
\* the previous last entry only when the history held 5; so the history
\* always holds the latest min(added, 5) entries, newest first.  (A step
\* that sets last to a HumanizeResolve is the settlement of that call.)
C3_NewestFirstOldestEvicted ==
    /\ [](/\ Len(history) = Min(added, 5)
          /\ \A i \in DOMAIN history : history[i].ord = added - i + 1)
    /\ [][(last' # last /\ last'.op = "HumanizeResolve") =>
              /\ Len(history') = Min(Len(history) + 1, 5)
              /\ history'[1].ord = added + 1
              /\ \A i \in 2..Len(history') : history'[i] = history[i - 1]]_vars

\* after six successful transforms the sixth is in front and the first is gone
C3_Witness ==
    /\ added = 6
    /\ last.op = "HumanizeResolve"
    /\ history[1].ord = 6
    /\ \A i \in DOMAIN history : history[i].ord # 1

\* C4: handleTransform calls the service with the input text, tone and
\* language name of the moment of submission, and when the call resolves the
\* output text is the returned text and the history gains one entry, in
\* front, made of the submitted input, the returned text and the submitted
\* language name.
C4_SuccessUsesSubmittedValues ==
    [][/\ TransformStart =>
            \E c \in humanizeCalls' :
                /\ humanizeCalls' = humanizeCalls \cup {c}
                /\ c \notin humanizeCalls
                /\ c.text = inputText
                /\ c.tone = selectedTone
                /\ c.language = selectedLang.name
       /\ \A c \in humanizeCalls, r \in HumanizeResponses :
            HumanizeResolve(c, r) =>
                /\ outputText' = (IF r # <<>> THEN r ELSE FallbackText)
                /\ history'[1].originalText = c.text
                /\ history'[1].humanizedText = outputText'
                /\ history'[1].language = c.language
                /\ Tail(history') = SubSeq(history, 1, Len(history') - 1)
                /\ added' = added + 1]_vars

\* a transform resolved after the input was edited while it was in flight
C4_Witness ==
    /\ last.op = "HumanizeResolve"
    /\ history[1].originalText # inputText
    /\ outputText = history[1].humanizedText

\* C5: when the humanize call of handleTransform rejects, the error message
\* becomes non-empty, the output text and the history stay what they were and
\* isLoading is cleared.
C5_RejectKeepsOutput ==
    [][\A c \in humanizeCalls :
         HumanizeReject(c) =>
            /\ error' \notin {NoError, ""}
            /\ outputText' = outputText
            /\ history' = history
            /\ isLoading' = FALSE]_vars

\* a transform rejected while an earlier output was on display
C5_Witness ==
    /\ last.op = "HumanizeReject"
    /\ error = ApiFailedMessage
    /\ outputText # <<>>
    /\ Len(history) = 1

\* C6: a new entry's language is the language name selected when its
\* transform was submitted; SelectLanguage changes neither the pending calls
\* nor the history; and no step changes an entry already in the history: a
\* step that changes the history empties it or puts one entry in front.
C6_EntryLanguageFixedAtSubmission ==
    [][/\ TransformStart =>
            \A c \in humanizeCalls' \ humanizeCalls :
                c.language = selectedLang.name
       /\ \A c \in humanizeCalls, r \in HumanizeResponses :
            HumanizeResolve(c, r) => history'[1].language = c.language
       /\ \A lang \in LanguageChoices :
            SelectLanguage(lang) =>
                history' = history /\ humanizeCalls' = humanizeCalls
       /\ history' # history =>
            \/ history' = <<>>
            \/ /\ history' # <<>>
               /\ Tail(history') = SubSeq(history, 1, Len(history') - 1)]_vars

\* an entry whose language is not the language selected now
C6_Witness ==
    /\ last.op = "HumanizeResolve"
    /\ history[1].language # selectedLang.name

\* C7: no CameraScanner instance is unmounted while a stream it acquired
\* still has running tracks.
C7_ClosedCameraHoldsNoLiveStream ==
    \A k \in DOMAIN cams : ~cams[k].mounted => cams[k].tracks # "live"

\* C8: a confirmed clearAll empties input, output and history and resets
\* the error, leaving tone, language and the flags alone; a declined one
\* changes no field of the state.
C8_ClearAllOnlyOnConfirm ==
    [][\A confirmed \in BOOLEAN :
         clearAll(confirmed) =>
            IF confirmed
            THEN /\ inputText' = <<>>
                 /\ outputText' = <<>>
                 /\ history' = <<>>
                 /\ error' = NoError
                 /\ UNCHANGED <<Selections, Flags>>
            ELSE UNCHANGED <<inputText, outputText, history, error,
                             Selections, Flags, Pending, recognition,
                             cams>>]_vars

\* clearAll was confirmed while a transform was in flight
C8_Witness ==
    /\ last.op = "clearAll"
    /\ isLoading
    /\ humanizeCalls # {}

\* C9: Clear History empties the history and leaves every other field of the
\* state unchanged.
C9_ClearHistoryOnlyHistory ==
    [][ClearHistory =>
         /\ history' = <<>>
         /\ UNCHANGED <<inputText, outputText, error, Selections, Flags,
                        Pending, recognition, cams>>]_vars

\* the history was cleared with an input, an output and an error on display
C9_Witness ==
    /\ last.op = "ClearHistory"
    /\ history = <<>>
    /\ inputText # <<>>
    /\ outputText # <<>>
    /\ error # NoError

\* C10: handleTransform on an empty or whitespace-only input sets the
\* validation message and nothing else: no call is issued, isLoading, the
\* output and the history are unchanged.
C10_BlankSubmitOnlySetsError ==
    [][(SubmitTransform /\ IsBlank(inputText)) =>
         /\ error' = EnterTextMessage
         /\ UNCHANGED <<inputText, outputText, history, Selections, Flags,
                        Pending, recognition, cams, nextId>>]_vars

\* the transform was submitted on a whitespace-only input
C10_Witness ==
    /\ last.op = "TransformBlank"
    /\ inputText = <<" ">>
    /\ error = EnterTextMessage

\* C11: a transcript delivered while a session is listening becomes the
\* input when the input is empty at that moment, and otherwise is added to
\* the input as it is at that moment after one space; listening ends.
C11_TranscriptAppendedToCurrentInput ==
    /\ [](recognition \in {"started", "stopping"} => isListening)
    /\ [][\A t \in Transcripts :
            RecognitionResult(t) =>
                /\ inputText' = IF inputText = <<>>
                                THEN t
                                ELSE inputText \o <<" ">> \o t
                /\ isListening' = FALSE]_vars

\* a transcript has been added to a text typed before it arrived
C11_Witness ==
    /\ last.op = "RecognitionResult"
    /\ inputText = <<"a", " ", "t">>
    /\ ~isListening

\* C12: on a host without speech recognition, the microphone button sets
\* the voice-unsupported error and nothing else: listening stays off, no
\* session exists or starts, and the input is unchanged.
C12_UnsupportedVoiceOnlySetsError ==
    /\ [](recognition = "unsupported" => ~isListening)
    /\ [][recognition = "unsupported" =>
            /\ recognition' = "unsupported"
            /\ (toggleVoiceInput =>
                  /\ error' = VoiceUnsupportedMessage
                  /\ isListening' = FALSE
                  /\ inputText' = inputText
                  /\ Pending' = Pending)]_vars

\* the microphone button was pressed on a host without speech recognition,
\* with a text in the input
C12_Witness ==
    /\ last.op = "toggleVoiceInput"
    /\ recognition = "unsupported"
    /\ error = VoiceUnsupportedMessage
    /\ inputText = <<"a">>
    /\ ~isListening

\* C13: a capture closes the scanner and sets isLoading in the step that
\* issues the extraction call; a non-empty extracted text becomes the input
\* when the input is empty and otherwise follows it after a blank line; an
\* empty result leaves the input as it is; a rejection sets an error; and
\* every settlement clears isLoading.
C13_CaptureAppendsExtractedText ==
    [][/\ (last' # last /\ last'.op = "onCapture") =>
            /\ ~isScanning' /\ isLoading'
            /\ \A k \in DOMAIN cams' : ~cams'[k].mounted
            /\ \E c \in extractCalls' \ extractCalls : c.id = last'.id
       /\ (last' # last /\ last'.op = "ExtractResolve") =>
            \A c \in extractCalls, r \in ExtractResponses :
                ExtractResolve(c, r) =>
                    /\ inputText' =
                          IF Trim(r) = <<>> THEN inputText
                          ELSE IF inputText = <<>> THEN Trim(r)
                          ELSE inputText \o <<"\n", "\n">> \o Trim(r)
                    /\ ~isLoading'
       /\ (last' # last /\ last'.op = "ExtractReject") =>
            /\ error' = ScanFailedMessage
            /\ inputText' = inputText
            /\ ~isLoading'
            /\ extractCalls' # extractCalls]_vars

\* an extracted text has been added, after a blank line, to a typed text
C13_Witness ==
    /\ last.op = "ExtractResolve"
    /\ inputText = <<"a", "\n", "\n", "x">>
    /\ ~isLoading /\ ~isScanning

\* C14: a grammar fix that succeeds replaces the input by the text the
\* service returned, or by the text that was submitted when the service
\* returned nothing, whatever the input holds when the call settles; and a
\* fix call is issued only for a non-blank input, which it carries.
C14_FixLastWriteWins ==
    [][/\ (last' # last /\ last'.op \in {"FixResolve", "FixResolveOverEdit"}) =>
            \A c \in fixCalls, r \in FixResponses :
                FixResolve(c, r) =>
                    inputText' = IF Trim(r) # <<>> THEN Trim(r) ELSE c.text
       /\ \A c \in fixCalls' \ fixCalls :
            ~IsBlank(inputText) /\ c.text = inputText]_vars

\* a fix settled after the input had been edited, and its text is the input
C14_Witness ==
    /\ last.op = "FixResolveOverEdit"
    /\ inputText = <<"f">>
    /\ ~isSpellingLoading

\* C15: a grammar fix, when it starts and when it settles, leaves isLoading
\* as it is; a transform or a capture, when it starts and when it settles,
\* leaves isSpellingLoading as it is; and neither flag disables the other
\* operation's button.
C15_LoadingFlagsIndependent ==
    /\ [](~IsBlank(inputText) =>
            /\ (FixDisabled <=> isSpellingLoading)
            /\ (HumanizeDisabled <=> isLoading))
    /\ [][/\ (last' # last /\ last'.op \in
                 {"ClickFix", "FixResolve", "FixResolveOverEdit", "FixReject"})
             => isLoading' = isLoading
          /\ (last' # last /\ last'.op \in
                 {"TransformStart", "HumanizeResolve", "HumanizeReject",
                  "onCapture", "ExtractResolve", "ExtractReject"})
             => isSpellingLoading' = isSpellingLoading]_vars

\* a grammar fix was started while a transform was in flight
C15_Witness ==
    /\ last.op = "ClickFix"
    /\ humanizeCalls # {} /\ fixCalls # {}
    /\ isLoading /\ isSpellingLoading

\* a transform was started while a grammar fix was in flight
C15_WitnessTransformDuringFix ==
    /\ last.op = "TransformStart"
    /\ humanizeCalls # {} /\ fixCalls # {}
    /\ isLoading /\ isSpellingLoading

\* C16: choosing a tone replaces the selected tone and nothing else, and
\* choosing a language replaces the selected language and nothing else:
\* input, output, history, error, the flags and the calls in flight stay as
\* they are, so neither choice issues a service call.
C16_SelectionChangesOnlySelection ==
    [][/\ \A lang \in LanguageChoices :
            SelectLanguage(lang) =>
                /\ selectedLang' = lang
                /\ UNCHANGED <<selectedTone, inputText, outputText, history,
                               error, Flags, Pending>>
       /\ \A tone \in ToneChoices :
            SelectTone(tone) =>
                /\ selectedTone' = tone
                /\ UNCHANGED <<selectedLang, inputText, outputText, history,
                               error, Flags, Pending>>]_vars

\* another language was chosen while an output produced in English is shown
C16_Witness ==
    /\ last.op = "SelectLanguage"
    /\ selectedLang = SUPPORTED_LANGUAGES[3]
    /\ outputText # <<>>
    /\ Len(history) > 0 /\ history[1].language = "English"
    /\ Pending = <<{}, {}, {}>>

\* C17: when a humanize, grammar-fix or extraction call fails, the
\* controller's continuation handles it: the call is no longer pending, its
\* loading flag is cleared, and error holds the message of that failure
\* whatever it held before.
C17_FailureSetsItsMessage ==
    [][/\ (last' # last /\ last'.op = "HumanizeReject") =>
            /\ error' = ApiFailedMessage
            /\ ~isLoading'
            /\ \E c \in humanizeCalls : humanizeCalls' = humanizeCalls \ {c}
       /\ (last' # last /\ last'.op = "FixReject") =>
            /\ error' = GrammarFailedMessage
            /\ ~isSpellingLoading'
            /\ \E c \in fixCalls : fixCalls' = fixCalls \ {c}
       /\ (last' # last /\ last'.op = "ExtractReject") =>
            /\ error' = ScanFailedMessage
            /\ ~isLoading'
            /\ \E c \in extractCalls : extractCalls' = extractCalls \ {c}]_vars

\* a grammar fix failed after a transform had failed: the transform's
\* message was showing and the fix's message has replaced it
C17_Witness ==
    /\ last.op = "FixReject"
    /\ error = GrammarFailedMessage
    /\ transformsLeft = MaxTransforms - 1
    /\ humanizeCalls = {} /\ added = 0
    /\ stepsLeft = 0

\* C18: in every state the selected language is one of the twelve of the
\* catalog, and the output is laid out right to left when its code is ur,
\* sd, ar, ps or bal and left to right when it is en, en-pk, pa, es, fr, de
\* or zh, whichever language the displayed output was produced in.
C18_DirectionFollowsSelectedLanguage ==
    /\ selectedLang \in Languages
    /\ Cardinality({l.code : l \in Languages}) = 12
    /\ selectedLang.code \in {"ur", "sd", "ar", "ps", "bal"}
          => OutputDir = "rtl"
    /\ selectedLang.code \in {"en", "en-pk", "pa", "es", "fr", "de", "zh"}
          => OutputDir = "ltr"
    /\ selectedLang.code \in {"ur", "sd", "ar", "ps", "bal",
                              "en", "en-pk", "pa", "es", "fr", "de", "zh"}

\* an output produced in English is displayed with Balochi selected
C18_Witness ==
    /\ selectedLang.code = "bal"
    /\ OutputDir = "rtl"
    /\ outputText # <<>>
    /\ Len(history) > 0 /\ history[1].language = "English"
    /\ history[1].humanizedText = outputText

\* C19: the extraction call carries only the base64 payload of the image it
\* was given: of a data URL the part after the comma, and a string without
\* a comma as it is.
C19_ExtractionForwardsPayloadOnly ==
    [][\A img \in ImageInputs :
          SubmitCapture(img) =>
              \E c \in extractCalls' \ extractCalls :
                  IF \A k \in DOMAIN img : img[k] # ","
                  THEN c.data = img
                  ELSE \E k \in DOMAIN img :
                          /\ img[k] = ","
                          /\ \A j \in 1..(k - 1) : img[j] # ","
                          /\ c.data = SubSeq(img, k + 1, Len(img))]_vars

\* an image given as bare base64 is in flight as it was given
C19_Witness ==
    /\ last.op = "onCapture"
    /\ \E c \in extractCalls : c.id = last.id /\ c.data = BareBase64

\* a frame given as a data URL is in flight without its header
C19_WitnessDataUrl ==
    /\ last.op = "onCapture"
    /\ \E c \in extractCalls : c.id = last.id /\ c.data = <<"/9j/">>

\* C20: at most one humanize call issued by the transform action is in
\* flight at any time, whatever the user does while it is pending.
C20_OneHumanizeCallInFlight == Cardinality(humanizeCalls) <= 1

\* C21: while a humanize call is unsettled, isLoading is true.
C21_LoadingWhileHumanizePending == humanizeCalls # {} => isLoading

\* C22: a pending transform or grammar-fix call leaves the set of calls in
\* flight only by settling, whatever the user does meanwhile, a confirmed
\* clearAll or Clear History included; it can always settle; and when it
\* resolves its result is applied: a transform sets the output and puts its
\* entry in front of the history, a fix sets the input.
C22_NoCancellation ==
    /\ [](/\ \A c \in humanizeCalls : ENABLED HumanizeResolve(c, <<"h">>)
          /\ \A c \in fixCalls : ENABLED FixResolve(c, <<"f", " ">>))
    /\ [][/\ last'.op \notin SettleOps =>
                /\ humanizeCalls \subseteq humanizeCalls'
                /\ fixCalls \subseteq fixCalls'
          /\ (last' # last /\ last'.op = "HumanizeResolve") =>
                \A c \in humanizeCalls, r \in HumanizeResponses :
                    HumanizeResolve(c, r) =>
                        /\ outputText' = HumanizeResult(r)
                        /\ Len(history') = Min(Len(history) + 1, 5)
                        /\ history'[1].originalText = c.text
                        /\ history'[1].humanizedText = HumanizeResult(r)
          /\ (last' # last /\ last'.op \in {"FixResolve", "FixResolveOverEdit"}) =>
                \A c \in fixCalls, r \in FixResponses :
                    FixResolve(c, r) => inputText' = FixResult(r, c.text)]_vars

\* a transform succeeded after a clearAll was confirmed while it was in
\* flight: the output is set and the emptied history holds its entry
C22_Witness ==
    /\ last.op = "HumanizeResolve"
    /\ last.afterClear
    /\ inputText = <<>>
    /\ outputText # <<>>
    /\ Len(history) = 1 /\ history[1].humanizedText = outputText

\* C23: the microphone button pressed while idle with no session open
\* clears the error, sets isListening and starts a session; pressed while
\* a session is running it asks the session to stop; a result, an error and
\* an end each set isListening to false; listening always has a session
\* whose end is still to come; and, the host delivering its callbacks,
\* every state that is listening is followed by one that is not.
C23_ListeningReturnsToIdle ==
    /\ [](isListening => recognition \in {"started", "stopping", "closing"})
    /\ [][/\ (toggleVoiceInput /\ ~isListening /\ recognition = "inactive") =>
                error' = NoError /\ isListening' /\ recognition' = "started"
          /\ (toggleVoiceInput /\ isListening /\ recognition = "started") =>
                recognition' = "stopping"
          /\ last'.op \in {"RecognitionResult", "RecognitionError",
                           "RecognitionEnd"} => ~isListening']_vars
    /\ (isListening ~> ~isListening)

\* a session that was started has ended and the adapter is idle again
C23_Witness ==
    /\ last.op = "RecognitionEnd"
    /\ recognition = "inactive"
    /\ ~isListening

\* C24: the permission of a scanner changes only from pending to granted or
\* from pending to denied, and the capture button signals onCapture only
\* when the permission of the mounted scanner is granted.
C24_CaptureOnlyWhenGranted ==
    [][/\ \A k \in DOMAIN cams :
            cams'[k].hasPermission # cams[k].hasPermission =>
                /\ cams[k].hasPermission = "null"
                /\ cams'[k].hasPermission \in {"true", "false"}
       /\ takePhoto => cams[Len(cams)].hasPermission = "true"]_vars

\* C24, the part about the permission alone: it changes only from pending
\* to granted or from pending to denied.
C24_PermissionSettlesOnce ==
    [][\A k \in DOMAIN cams :
            cams'[k].hasPermission # cams[k].hasPermission =>
                /\ cams[k].hasPermission = "null"
                /\ cams'[k].hasPermission \in {"true", "false"}]_vars

====
